---- MODULE Spec2Model ----
(***************************************************************************)
(* Model of the generated serverbound packet dispatcher                    *)
(* (src/.serverbound-enum.generated.rs): the ServerboundPacket enum, the   *)
(* state-conditioned deserialize, the introspection accessors              *)
(* get_packet_name / get_clientstate / get_id, and to_u8.                  *)
(*                                                                         *)
(* A reader is a pair (bytes, pos): bytes is the whole source and pos the  *)
(* number of bytes already consumed.  Bytes are the integers 0..255.       *)
(* The varint primitive and the leaf packet codecs live outside the        *)
(* generated file; they are modelled after the protocol description.       *)
(***************************************************************************)
EXTENDS Integers, Sequences, FiniteSets, TLC

VARIABLES mode, pc, state, src, value, res, out

vars == <<mode, pc, state, src, value, res, out>>

----------------------------------------------------------------------------
(* Bounds of the explored input space *)

MaxBody == 3
MaxPayload == 2

----------------------------------------------------------------------------
(* ClientState and the ServerboundPacket enum *)

ClientState == {"Handshake", "Status", "Login", "Play"}

(* faulty variant of ServerboundPacket: the enum without its last variant *)
ServerboundPacket_short ==
    { "Handshake",
      "StatusRequest", "StatusPing",
      "LoginStart", "EncryptionResponse",
      "TeleportConfirm", "TabComplete", "ChatMessage", "ClientStatus",
      "ClientSettings", "ConfirmTransaction", "EnchantItem", "ClickWindow",
      "CloseWindow", "PluginMessage", "UseEntity", "KeepAlive", "Player",
      "PlayerPosition", "PlayerPositionAndLook", "PlayerLook", "VehicleMove",
      "SteerBoat", "CraftRecipeRequest", "PlayerAbilities", "PlayerDigging",
      "EntityAction", "SteerVehicle", "CraftingBookData",
      "ResourcePackStatus", "AdvancementTab", "HeldItemChange",
      "CreativeInventoryAction", "UpdateSign", "Animation", "Spectate",
      "PlayerBlockPlacement" }

ServerboundPacket ==
    { "Handshake",
      "StatusRequest", "StatusPing",
      "LoginStart", "EncryptionResponse",
      "TeleportConfirm", "TabComplete", "ChatMessage", "ClientStatus",
      "ClientSettings", "ConfirmTransaction", "EnchantItem", "ClickWindow",
      "CloseWindow", "PluginMessage", "UseEntity", "KeepAlive", "Player",
      "PlayerPosition", "PlayerPositionAndLook", "PlayerLook", "VehicleMove",
      "SteerBoat", "CraftRecipeRequest", "PlayerAbilities", "PlayerDigging",
      "EntityAction", "SteerVehicle", "CraftingBookData",
      "ResourcePackStatus", "AdvancementTab", "HeldItemChange",
      "CreativeInventoryAction", "UpdateSign", "Animation", "Spectate",
      "PlayerBlockPlacement", "UseItem" }

NoValue == [name |-> "none", payload |-> <<>>]
NoErr == [kind |-> "none"]

Ok(v) == [ok |-> TRUE, value |-> v, err |-> NoErr]
Err(e) == [ok |-> FALSE, value |-> NoValue, err |-> e]

----------------------------------------------------------------------------
(* i32 arithmetic and the varint primitive *)

TwoPow28 == 16384 * 16384
MaxI32 == 7 * TwoPow28 + (TwoPow28 - 1)
MinI32 == (-MaxI32) - 1

RECURSIVE WriteGroups(_)
WriteGroups(u) ==
    IF u \div 128 = 0 THEN <<u % 128>>
    ELSE <<(u % 128) + 128>> \o WriteGroups(u \div 128)

(* write_varint: the i32 is taken as its 32-bit pattern and emitted in
   little-endian groups of 7 bits, the high bit marking continuation.  A
   negative value has bit 31 set and so always takes five bytes. *)
write_varint(v) ==
    IF v >= 0 THEN WriteGroups(v)
    ELSE LET w == v - MinI32
         IN << (w % 128) + 128,
               ((w \div 128) % 128) + 128,
               ((w \div 16384) % 128) + 128,
               ((w \div (128 * 16384)) % 128) + 128,
               ((w \div TwoPow28) % 8) + 8 >>

RECURSIVE Pow128(_)
Pow128(i) == IF i = 0 THEN 1 ELSE 128 * Pow128(i - 1)

(* the value of group i (0-based) added to the accumulator, wrapping to i32:
   the fifth group holds bits 28..31, bit 31 being the sign *)
AddGroup(acc, b, i) ==
    IF i < 4 THEN acc + (b % 128) * Pow128(i)
    ELSE acc + (b % 8) * TwoPow28 + (IF (b \div 8) % 2 = 1 THEN MinI32 ELSE 0)

RECURSIVE ReadGroups(_, _, _, _)
ReadGroups(bytes, pos, i, acc) ==
    IF pos >= Len(bytes)
    THEN [ok |-> FALSE, val |-> 0, pos |-> pos, err |-> [kind |-> "UnexpectedEof"]]
    ELSE LET b == bytes[pos + 1]
             acc2 == AddGroup(acc, b, i)
         IN IF b < 128
            THEN [ok |-> TRUE, val |-> acc2, pos |-> pos + 1, err |-> NoErr]
            ELSE IF i >= 4
                 THEN [ok |-> FALSE, val |-> 0, pos |-> pos + 1,
                       err |-> [kind |-> "VarIntTooLong"]]
                 ELSE ReadGroups(bytes, pos + 1, i + 1, acc2)

(* read_varint: at most five bytes; a source that ends inside the integer
   or a fifth byte with the continuation bit set is an error. *)
read_varint(bytes, pos) == ReadGroups(bytes, pos, 0, 0)

----------------------------------------------------------------------------
(* Leaf packet codecs.  Every leaf type X offers X::deserialize(r), which
   yields the ServerboundPacket::X variant built from the fields it reads,
   and x.to_u8(), which yields the bytes of the whole packet.  The field
   layout is abstracted to one length-prefixed byte string. *)

LeafFields(payload) == write_varint(Len(payload)) \o payload

Leaf_deserialize(name, bytes, pos) ==
    LET n == read_varint(bytes, pos)
    IN IF ~n.ok
       THEN [ok |-> FALSE, value |-> NoValue, pos |-> n.pos, err |-> n.err]
       ELSE IF n.val < 0
            THEN [ok |-> FALSE, value |-> NoValue, pos |-> n.pos,
                  err |-> [kind |-> "NegativeLength"]]
            ELSE IF n.pos + n.val > Len(bytes)
                 THEN [ok |-> FALSE, value |-> NoValue, pos |-> Len(bytes),
                       err |-> [kind |-> "UnexpectedEof"]]
                 ELSE [ok |-> TRUE,
                       value |-> [name |-> name,
                                  payload |-> SubSeq(bytes, n.pos + 1, n.pos + n.val)],
                       pos |-> n.pos + n.val, err |-> NoErr]

----------------------------------------------------------------------------
(* The tables of the generated file *)

get_packet_name_table ==
    [ Handshake |-> "Handshake",
      StatusRequest |-> "StatusRequest", StatusPing |-> "StatusPing",
      LoginStart |-> "LoginStart", EncryptionResponse |-> "EncryptionResponse",
      TeleportConfirm |-> "TeleportConfirm", TabComplete |-> "TabComplete",
      ChatMessage |-> "ChatMessage", ClientStatus |-> "ClientStatus",
      ClientSettings |-> "ClientSettings",
      ConfirmTransaction |-> "ConfirmTransaction",
      EnchantItem |-> "EnchantItem", ClickWindow |-> "ClickWindow",
      CloseWindow |-> "CloseWindow", PluginMessage |-> "PluginMessage",
      UseEntity |-> "UseEntity", KeepAlive |-> "KeepAlive",
      Player |-> "Player", PlayerPosition |-> "PlayerPosition",
      PlayerPositionAndLook |-> "PlayerPositionAndLook",
      PlayerLook |-> "PlayerLook", VehicleMove |-> "VehicleMove",
      SteerBoat |-> "SteerBoat", CraftRecipeRequest |-> "CraftRecipeRequest",
      PlayerAbilities |-> "PlayerAbilities", PlayerDigging |-> "PlayerDigging",
      EntityAction |-> "EntityAction", SteerVehicle |-> "SteerVehicle",
      CraftingBookData |-> "CraftingBookData",
      ResourcePackStatus |-> "ResourcePackStatus",
      AdvancementTab |-> "AdvancementTab", HeldItemChange |-> "HeldItemChange",
      CreativeInventoryAction |-> "CreativeInventoryAction",
      UpdateSign |-> "UpdateSign", Animation |-> "Animation",
      Spectate |-> "Spectate", PlayerBlockPlacement |-> "PlayerBlockPlacement",
      UseItem |-> "UseItem" ]

get_clientstate_table ==
    [ Handshake |-> "Handshake",
      StatusRequest |-> "Status", StatusPing |-> "Status",
      LoginStart |-> "Login", EncryptionResponse |-> "Login",
      TeleportConfirm |-> "Play", TabComplete |-> "Play",
      ChatMessage |-> "Play", ClientStatus |-> "Play",
      ClientSettings |-> "Play", ConfirmTransaction |-> "Play",
      EnchantItem |-> "Play", ClickWindow |-> "Play", CloseWindow |-> "Play",
      PluginMessage |-> "Play", UseEntity |-> "Play", KeepAlive |-> "Play",
      Player |-> "Play", PlayerPosition |-> "Play",
      PlayerPositionAndLook |-> "Play", PlayerLook |-> "Play",
      VehicleMove |-> "Play", SteerBoat |-> "Play",
      CraftRecipeRequest |-> "Play", PlayerAbilities |-> "Play",
      PlayerDigging |-> "Play", EntityAction |-> "Play",
      SteerVehicle |-> "Play", CraftingBookData |-> "Play",
      ResourcePackStatus |-> "Play", AdvancementTab |-> "Play",
      HeldItemChange |-> "Play", CreativeInventoryAction |-> "Play",
      UpdateSign |-> "Play", Animation |-> "Play", Spectate |-> "Play",
      PlayerBlockPlacement |-> "Play", UseItem |-> "Play" ]

get_id_table ==
    [ Handshake |-> 0,
      StatusRequest |-> 0, StatusPing |-> 1,
      LoginStart |-> 0, EncryptionResponse |-> 1,
      TeleportConfirm |-> 0, TabComplete |-> 1, ChatMessage |-> 2,
      ClientStatus |-> 3, ClientSettings |-> 4, ConfirmTransaction |-> 5,
      EnchantItem |-> 6, ClickWindow |-> 7, CloseWindow |-> 8,
      PluginMessage |-> 9, UseEntity |-> 10, KeepAlive |-> 11, Player |-> 12,
      PlayerPosition |-> 13, PlayerPositionAndLook |-> 14, PlayerLook |-> 15,
      VehicleMove |-> 16, SteerBoat |-> 17, CraftRecipeRequest |-> 18,
      PlayerAbilities |-> 19, PlayerDigging |-> 20, EntityAction |-> 21,
      SteerVehicle |-> 22, CraftingBookData |-> 23,
      ResourcePackStatus |-> 24, AdvancementTab |-> 25, HeldItemChange |-> 26,
      CreativeInventoryAction |-> 27, UpdateSign |-> 28, Animation |-> 29,
      Spectate |-> 30, PlayerBlockPlacement |-> 31, UseItem |-> 32 ]

(* The match arms of deserialize, per state, in source order: <<id, leaf>> *)
HandshakeArms == << <<0, "Handshake">> >>

StatusArms == << <<0, "StatusRequest">>, <<1, "StatusPing">> >>

LoginArms == << <<0, "LoginStart">>, <<1, "EncryptionResponse">> >>

PlayArms ==
    << <<0, "TeleportConfirm">>, <<1, "TabComplete">>, <<2, "ChatMessage">>,
       <<3, "ClientStatus">>, <<4, "ClientSettings">>,
       <<5, "ConfirmTransaction">>, <<6, "EnchantItem">>,
       <<7, "ClickWindow">>, <<8, "CloseWindow">>, <<9, "PluginMessage">>,
       <<10, "UseEntity">>, <<11, "KeepAlive">>, <<12, "Player">>,
       <<13, "PlayerPosition">>, <<14, "PlayerPositionAndLook">>,
       <<15, "PlayerLook">>, <<16, "VehicleMove">>, <<17, "SteerBoat">>,
       <<18, "CraftRecipeRequest">>, <<19, "PlayerAbilities">>,
       <<20, "PlayerDigging">>, <<21, "EntityAction">>,
       <<22, "SteerVehicle">>, <<23, "CraftingBookData">>,
       <<24, "ResourcePackStatus">>, <<25, "AdvancementTab">>,
       <<26, "HeldItemChange">>, <<27, "CreativeInventoryAction">>,
       <<28, "UpdateSign">>, <<29, "Animation">>, <<30, "Spectate">>,
       <<31, "PlayerBlockPlacement">>, <<32, "UseItem">> >>

(* faulty variants of StateArms: two Play arms exchanged; the last Play arm moved
   off the end of the range; the Login arm for id 0 sharing Handshake's leaf *)
StateArms_swapped(st) ==
    CASE st = "Handshake" -> HandshakeArms
      [] st = "Status" -> StatusArms
      [] st = "Login" -> LoginArms
      [] st = "Play" -> [PlayArms EXCEPT ![32] = <<31, "UseItem">>,
                                         ![33] = <<32, "PlayerBlockPlacement">>]

StateArms_gap(st) ==
    CASE st = "Handshake" -> HandshakeArms
      [] st = "Status" -> StatusArms
      [] st = "Login" -> LoginArms
      [] st = "Play" -> [PlayArms EXCEPT ![33] = <<33, "UseItem">>]

StateArms_shared(st) ==
    CASE st = "Handshake" -> HandshakeArms
      [] st = "Status" -> StatusArms
      [] st = "Login" -> [LoginArms EXCEPT ![1] = <<0, "Handshake">>]
      [] st = "Play" -> PlayArms

StateArms(st) ==
    CASE st = "Handshake" -> HandshakeArms
      [] st = "Status" -> StatusArms
      [] st = "Login" -> LoginArms
      [] st = "Play" -> PlayArms

NoArm == "_"

(* faulty variant of MatchArm: an id without an arm falls back to the first arm *)
MatchArm_fallback(st, packet_id) ==
    LET arms == StateArms(st)
        hits == {i \in 1..Len(arms) : arms[i][1] = packet_id}
    IN IF hits = {} THEN arms[1][2]
       ELSE arms[CHOOSE i \in hits : \A j \in hits : i <= j][2]

(* match packet_id { ... }: the first arm whose literal equals packet_id,
   the wildcard arm otherwise. *)
MatchArm(st, packet_id) ==
    LET arms == StateArms(st)
        hits == {i \in 1..Len(arms) : arms[i][1] = packet_id}
    IN IF hits = {} THEN NoArm
       ELSE arms[CHOOSE i \in hits : \A j \in hits : i <= j][2]

----------------------------------------------------------------------------
(* Introspection accessors: one exhaustive match over the enum each *)

get_packet_name(v) == get_packet_name_table[v.name]

get_clientstate(v) == get_clientstate_table[v.name]

(* faulty variant of get_id: the last Play packet numbered one too high *)
get_id_off(v) == IF v.name = "UseItem" THEN 33 ELSE get_id_table[v.name]

get_id(v) == get_id_table[v.name]

(* x.to_u8() of a leaf: the packet's id as a varint, then its fields *)
Leaf_to_u8(v) ==
    [ok |-> TRUE, bytes |-> write_varint(get_id_table[v.name]) \o LeafFields(v.payload)]

(* faulty variant of to_u8: the dispatcher writes the id in front of the leaf's bytes *)
to_u8_prepend(v) ==
    [ok |-> Leaf_to_u8(v).ok,
     bytes |-> write_varint(get_id_table[v.name]) \o Leaf_to_u8(v).bytes]

(* to_u8: every arm is `&ServerboundPacket::X(ref x) => x.to_u8()` *)
to_u8(v) == Leaf_to_u8(v)

(* bail!("No packet with id {} in state {}", packet_id, state) *)
Bail(packet_id, st) ==
    [kind |-> "Msg", text |-> <<"No packet with id ", packet_id, " in state ", st>>]

NoLeaf == [ok |-> FALSE, value |-> NoValue, pos |-> 0, err |-> NoErr]

(* faulty variant of LeafResult: the leaf's error wrapped with the packet and state *)
LeafResult_wrapped(l, arm, st) ==
    IF l.ok THEN Ok(l.value)
    ELSE Err([kind |-> "PayloadDecodeError", message_type |-> arm,
              phase |-> st, cause |-> l.err])

(* Ok(X::deserialize(r)?): the leaf's packet, or the leaf's error as it is *)
LeafResult(l, arm, st) == IF l.ok THEN Ok(l.value) ELSE Err(l.err)

(* faulty variant of Dispatch: the body is decoded before the id is looked up *)
Dispatch_eager(bytes, st, id) ==
    LET arm == MatchArm(st, id.val)
        l == Leaf_deserialize(IF arm = NoArm THEN "Handshake" ELSE arm, bytes, id.pos)
    IN IF arm = NoArm
       THEN [result |-> Err(Bail(id.val, st)), pos |-> l.pos,
             packet_id |-> id.val,
             calls |-> <<"read_varint", "Handshake", "match">>, leaf |-> l]
       ELSE [result |-> LeafResult(l, arm, st), pos |-> l.pos,
             packet_id |-> id.val,
             calls |-> <<"read_varint", arm, "match">>, leaf |-> l]

(* match state { .. match packet_id { k => Ok(X::deserialize(r)?),
   _ => bail!(..) } }.  The outcome records the Result, the reader position
   afterwards, the id read, the calls made in order and the leaf's result. *)
Dispatch(bytes, st, id) ==
    LET arm == MatchArm(st, id.val)
    IN IF arm = NoArm
       THEN [result |-> Err(Bail(id.val, st)), pos |-> id.pos,
             packet_id |-> id.val,
             calls |-> <<"read_varint", "match">>, leaf |-> NoLeaf]
       ELSE LET l == Leaf_deserialize(arm, bytes, id.pos)
            IN [result |-> LeafResult(l, arm, st), pos |-> l.pos,
                packet_id |-> id.val,
                calls |-> <<"read_varint", "match", arm>>, leaf |-> l]

(* faulty variant of deserialize: a failed read of the id is taken as id 0 *)
deserialize_unchecked(bytes, st) == Dispatch(bytes, st, read_varint(bytes, 0))

(* deserialize: let packet_id = read_varint(r)?; then the match *)
deserialize(bytes, st) ==
    LET id == read_varint(bytes, 0)
    IN IF ~id.ok
       THEN [result |-> Err(id.err), pos |-> id.pos, packet_id |-> 0,
             calls |-> <<"read_varint">>, leaf |-> NoLeaf]
       ELSE Dispatch(bytes, st, id)

----------------------------------------------------------------------------
(* Inputs *)

RECURSIVE SeqsUpTo(_, _)
SeqsUpTo(S, n) ==
    IF n = 0 THEN {<<>>}
    ELSE SeqsUpTo(S, n - 1) \cup {Append(q, b) : q \in [1..(n - 1) -> S], b \in S}

BodyBytes == {0, 1, 2, 128}

PayloadBytes == {0, 7, 200}

IdSamples == (-2..34) \cup {127, 128, 255, 300, MaxI32, MinI32}

(* byte prefixes that are no complete varint, or an over-long one *)
RawPrefixes ==
    { <<>>, <<128>>, <<255, 255>>, <<128, 128, 128, 128>>,
      <<128, 128, 128, 128, 128>>, <<255, 255, 255, 255, 255, 1>>,
      <<129, 0>>, <<255, 255, 255, 255, 15>> }

Bodies == SeqsUpTo(BodyBytes, MaxBody)

Sources ==
    {write_varint(k) \o b : k \in IdSamples, b \in Bodies}
        \cup {m \o b : m \in RawPrefixes, b \in Bodies}

Values == [name : ServerboundPacket, payload : SeqsUpTo(PayloadBytes, MaxPayload)]

NoRes == [result |-> Err(NoErr), pos |-> 0, packet_id |-> 0, calls |-> <<>>,
          leaf |-> NoLeaf]

NoOut == [ok |-> FALSE, bytes |-> <<>>]

----------------------------------------------------------------------------
(* The state machine: a caller holding a state and a source decodes one
   packet, and may encode the packet it got; a caller holding a packet
   encodes it, and may decode the bytes again. *)

Init ==
    /\ pc = "ready"
    /\ res = NoRes
    /\ out = NoOut
    /\ state \in ClientState
    /\ \/ mode = "decode" /\ src \in Sources /\ value = NoValue
       \/ mode = "encode" /\ src = <<>> /\ value \in Values

Deserialize ==
    /\ mode = "decode" /\ pc = "ready"
    /\ res' = deserialize(src, state)
    /\ pc' = "decoded"
    /\ UNCHANGED <<mode, state, src, value, out>>

ReEncode ==
    /\ pc = "decoded" /\ res.result.ok
    /\ out' = to_u8(res.result.value)
    /\ pc' = "reencoded"
    /\ UNCHANGED <<mode, state, src, value, res>>

ToU8 ==
    /\ mode = "encode" /\ pc = "ready"
    /\ out' = to_u8(value)
    /\ pc' = "encoded"
    /\ UNCHANGED <<mode, state, src, value, res>>

DeserializeEncoded ==
    /\ pc = "encoded" /\ out.ok
    /\ src' = out.bytes
    /\ res' = deserialize(out.bytes, state)
    /\ pc' = "roundtrip"
    /\ UNCHANGED <<mode, state, value, out>>

Next == Deserialize \/ ReEncode \/ ToU8 \/ DeserializeEncoded

Spec == Init /\ [][Next]_vars

----------------------------------------------------------------------------
(* Vocabulary of the properties *)

Decoded == pc \in {"decoded", "reencoded", "roundtrip"}

Encoded == pc \in {"encoded", "roundtrip"}

(* the id at the head of the source, read independently of deserialize *)
HeadId == read_varint(src, 0)

(* the variants get_clientstate assigns to state p, and their get_id values *)
VariantsOf(p) == {n \in ServerboundPacket : get_clientstate([name |-> n]) = p}

IdsOf(p) == {get_id([name |-> n]) : n \in VariantsOf(p)}

(* the ids probed when a property speaks of every integer *)
ProbeIds == IdSamples \cup (35..40)

(* the ids for which deserialize in state p reaches a leaf decoder *)
AcceptedIds(p) ==
    {k \in ProbeIds : Len(deserialize(write_varint(k), p).calls) = 3}

----------------------------------------------------------------------------
(* C1 - Round trip: a packet encoded with to_u8 and decoded again with
   deserialize in the state get_clientstate gives for it decodes
   successfully to a value equal to the packet. *)
C1_RoundTrip ==
    (pc = "roundtrip" /\ state = get_clientstate(value))
        => res.result = Ok(value)

C1_Witness ==
    /\ pc = "roundtrip"
    /\ state = get_clientstate(value)
    /\ value.name = "PlayerBlockPlacement"
    /\ Len(value.payload) = MaxPayload
    /\ res.result = Ok(value)

(* C2 - Closed world: an id that is no id of a variant of the state,
   negative ids and ids of other states included, is refused with the error
   naming the id and the state, and no packet is returned; 33 is refused in
   Play while 32 reaches UseItem. *)
C2_ClosedWorld ==
    (Decoded /\ HeadId.ok) =>
        /\ HeadId.val \notin IdsOf(state) =>
              /\ res.result = Err(Bail(HeadId.val, state))
              /\ res.result.value = NoValue
              /\ res.leaf = NoLeaf
        /\ (state = "Play" /\ HeadId.val = 32) =>
              /\ res.calls = <<"read_varint", "match", "UseItem">>
              /\ res.result.ok => res.result.value.name = "UseItem"

C2_Witness ==
    /\ pc = "decoded"
    /\ state = "Play"
    /\ HeadId.ok /\ HeadId.val = 33
    /\ Len(src) > 1
    /\ res.result = Err(Bail(33, "Play"))

(* C3 - Introspection consistency: a successful decode in state p of id k
   returns a packet whose get_clientstate is p and whose get_id is k, and
   decoding the id get_id gives for a packet in the state get_clientstate
   gives for it dispatches to that packet's own leaf. *)
C3_Introspection ==
    /\ (Decoded /\ res.result.ok) =>
          /\ get_clientstate(res.result.value) = state
          /\ get_id(res.result.value) = HeadId.val
    /\ (Encoded /\ pc = "encoded") =>
          /\ MatchArm(get_clientstate(value), get_id(value)) = value.name
          /\ \A p \in ClientState : \A k \in ProbeIds :
                MatchArm(p, k) = value.name
                    <=> (p = get_clientstate(value) /\ k = get_id(value))

C3_Witness ==
    /\ pc = "decoded"
    /\ res.result.ok
    /\ state = "Play"
    /\ HeadId.val = 32
    /\ get_id(res.result.value) = 32
    /\ get_clientstate(res.result.value) = "Play"

(* C4 - Id density: in each state the ids deserialize accepts, and the
   get_id values of the state's variants, are exactly 0 .. n-1 for the
   number n of the state's variants, no two variants sharing an id. *)
C4_Density ==
    Decoded =>
        LET n == Cardinality(VariantsOf(state))
        IN /\ AcceptedIds(state) = 0..(n - 1)
           /\ IdsOf(state) = 0..(n - 1)
           /\ Cardinality(IdsOf(state)) = n
           /\ HeadId.ok =>
                 (HeadId.val \in 0..(n - 1) <=> Len(res.calls) = 3)

C4_Witness ==
    /\ pc = "decoded"
    /\ state = "Play"
    /\ HeadId.ok /\ HeadId.val = 32
    /\ Len(res.calls) = 3
    /\ AcceptedIds("Play") = 0..32

(* C5 as stated - to_u8 writes the envelope itself: its bytes are the varint
   of get_id, written by the dispatcher, followed by exactly the bytes the
   payload's own to_u8 gives. *)
C5_DispatcherWritesId ==
    (pc = "encoded" /\ out.ok) =>
        out.bytes = write_varint(get_id(value)) \o Leaf_to_u8(value).bytes

(* C5 amended - to_u8 returns exactly what the payload's own to_u8 returns
   and adds no byte of its own; those bytes begin with the varint of get_id
   followed by the payload's fields, so re-encoding a packet decoded from a
   canonical source gives the bytes that were consumed. *)
C5_Delegates ==
    /\ (pc \in {"encoded", "reencoded"}) =>
          LET v == IF pc = "encoded" THEN value ELSE res.result.value
              idb == write_varint(get_id(v))
          IN /\ out = Leaf_to_u8(v)
             /\ out.ok
             /\ SubSeq(out.bytes, 1, Len(idb)) = idb
             /\ SubSeq(out.bytes, Len(idb) + 1, Len(out.bytes)) = LeafFields(v.payload)
    /\ (pc = "reencoded"
          /\ SubSeq(src, HeadId.pos + 1, res.pos) = LeafFields(res.result.value.payload)
          /\ SubSeq(src, 1, HeadId.pos) = write_varint(HeadId.val)) =>
          out.bytes = SubSeq(src, 1, res.pos)

C5_Witness ==
    /\ pc = "reencoded"
    /\ state = "Login"
    /\ HeadId.val = 1
    /\ res.result.value.name = "EncryptionResponse"
    /\ Len(res.result.value.payload) = 2
    /\ out.bytes = SubSeq(src, 1, res.pos)
    /\ out.bytes[1] = 1

(* C6 - Malformed id: when the id cannot be read, deserialize returns the
   read error, which differs from every unknown-id error; it returns no
   packet, looks nothing up and calls no leaf decoder. *)
C6_MalformedId ==
    (Decoded /\ ~HeadId.ok) =>
        /\ res.result = Err(HeadId.err)
        /\ res.result.err.kind \in {"UnexpectedEof", "VarIntTooLong"}
        /\ \A p \in ClientState : \A k \in ProbeIds :
              res.result.err # Bail(k, p)
        /\ ~res.result.ok
        /\ res.result.value = NoValue
        /\ res.calls = <<"read_varint">>
        /\ res.leaf = NoLeaf

C6_Witness ==
    /\ pc = "decoded"
    /\ src = <<128, 128>>
    /\ ~HeadId.ok
    /\ res.result = Err([kind |-> "UnexpectedEof"])
    /\ res.calls = <<"read_varint">>

(* C7 as stated - a failure of the leaf decoder is returned wrapped in an
   error that names the packet type and the state and keeps the leaf's
   error as its cause; it is not returned bare. *)
C7_Wrapped ==
    (Decoded /\ Len(res.calls) = 3 /\ ~res.leaf.ok) =>
        /\ ~res.result.ok
        /\ res.result.err # res.leaf.err
        /\ DOMAIN res.result.err = {"kind", "message_type", "phase", "cause"}
        /\ res.result.err.message_type = res.calls[3]
        /\ res.result.err.phase = state
        /\ res.result.err.cause = res.leaf.err

(* C7 amended - a failure of the leaf decoder is returned to the caller as
   it is: the leaf's error is not swallowed, and nothing naming the packet
   type or the state is added to it. *)
C7_Propagated ==
    (Decoded /\ Len(res.calls) = 3 /\ ~res.leaf.ok) =>
        /\ ~res.result.ok
        /\ res.result.value = NoValue
        /\ res.leaf.err # NoErr
        /\ res.result.err = res.leaf.err
        /\ res.leaf = Leaf_deserialize(MatchArm(state, HeadId.val), src, HeadId.pos)

C7_Witness ==
    /\ pc = "decoded"
    /\ state = "Login"
    /\ HeadId.ok /\ HeadId.val = 1
    /\ res.calls = <<"read_varint", "match", "EncryptionResponse">>
    /\ ~res.leaf.ok
    /\ Len(src) > HeadId.pos
    /\ res.result = Err([kind |-> "UnexpectedEof"])

(* C8 - Cross-phase isolation: an id accepted in two different states is
   dispatched to different packet types with different names; id 0 gives
   Handshake, StatusRequest, LoginStart and TeleportConfirm. *)
C8_Isolation ==
    /\ Decoded =>
          \A q \in ClientState \ {state} : \A k \in ProbeIds :
              (MatchArm(state, k) # NoArm /\ MatchArm(q, k) # NoArm) =>
                  /\ MatchArm(state, k) # MatchArm(q, k)
                  /\ get_packet_name([name |-> MatchArm(state, k)])
                        # get_packet_name([name |-> MatchArm(q, k)])
    /\ (Decoded /\ HeadId.ok /\ HeadId.val = 0 /\ res.result.ok) =>
          get_packet_name(res.result.value) =
              (CASE state = "Handshake" -> "Handshake"
                 [] state = "Status" -> "StatusRequest"
                 [] state = "Login" -> "LoginStart"
                 [] state = "Play" -> "TeleportConfirm")

C8_Witness ==
    /\ pc = "decoded"
    /\ state = "Login"
    /\ HeadId.ok /\ HeadId.val = 0
    /\ res.result.ok
    /\ get_packet_name(res.result.value) = "LoginStart"
    /\ MatchArm("Handshake", 0) = "Handshake"

(* the number of variants over the four states *)
TotalVariants ==
    Cardinality(VariantsOf("Handshake")) + Cardinality(VariantsOf("Status"))
        + Cardinality(VariantsOf("Login")) + Cardinality(VariantsOf("Play"))

AccessorsTotal ==
    /\ DOMAIN get_clientstate_table = ServerboundPacket
    /\ DOMAIN get_id_table = ServerboundPacket
    /\ DOMAIN get_packet_name_table = ServerboundPacket
    /\ \A n \in ServerboundPacket :
          /\ get_clientstate([name |-> n]) \in ClientState
          /\ get_id([name |-> n]) \in Int
          /\ get_packet_name([name |-> n]) = n

(* C9 as stated - the enum has exactly 37 variants, each of one state, the
   per-state counts summing to 37, and the accessors and to_u8 are total. *)
C9_ThirtySeven ==
    Encoded =>
        /\ Cardinality(ServerboundPacket) = 37
        /\ TotalVariants = 37
        /\ AccessorsTotal
        /\ out.ok

(* C9 amended - the enum has exactly 38 variants, each of one state, the
   per-state counts (1, 2, 2, 33) summing to 38, and the accessors and
   to_u8 are total. *)
C9_ThirtyEight ==
    Encoded =>
        /\ Cardinality(ServerboundPacket) = 38
        /\ TotalVariants = 38
        /\ Cardinality(VariantsOf("Handshake")) = 1
        /\ Cardinality(VariantsOf("Status")) = 2
        /\ Cardinality(VariantsOf("Login")) = 2
        /\ Cardinality(VariantsOf("Play")) = 33
        /\ AccessorsTotal
        /\ value.name \in ServerboundPacket
        /\ out.ok
        /\ out = to_u8(value)

C9_Witness ==
    /\ pc = "encoded"
    /\ value.name = "UseItem"
    /\ get_clientstate(value) = "Play"
    /\ out.ok
    /\ Cardinality(ServerboundPacket) = 38

(* C10 - Order and consumption: deserialize reads one id, then looks it
   up, and only on a hit calls one leaf decoder on the bytes after the id.
   After a success the reader stands after the id and the body and no
   further; after an unknown id no leaf was called and the reader stands
   right after the id.  The outcome is a whole packet or an error, and the
   id is read once. *)
C10_Order ==
    Decoded =>
        /\ Len(res.calls) \in 1..3
        /\ res.calls[1] = "read_varint"
        /\ \A i \in 2..Len(res.calls) : res.calls[i] # "read_varint"
        /\ Len(res.calls) >= 2 => (HeadId.ok /\ res.calls[2] = "match")
        /\ Len(res.calls) = 3 =>
              /\ res.calls[3] \in ServerboundPacket
              /\ res.calls[3] = MatchArm(state, HeadId.val)
        /\ (HeadId.ok /\ MatchArm(state, HeadId.val) = NoArm) =>
              /\ res.calls = <<"read_varint", "match">>
              /\ res.pos = HeadId.pos
              /\ res.leaf = NoLeaf
        /\ res.result.ok =>
              /\ Len(res.calls) = 3
              /\ res.result.value.name \in ServerboundPacket
              /\ res.result.err = NoErr
              /\ res.pos <= Len(src)
              /\ LET lenField == read_varint(src, HeadId.pos)
                 IN /\ res.pos = lenField.pos + Len(res.result.value.payload)
                    /\ lenField.val = Len(res.result.value.payload)
                    /\ res.result.value.payload
                         = SubSeq(src, lenField.pos + 1, res.pos)
        /\ ~res.result.ok =>
              /\ res.result.value = NoValue
              /\ res.result.err # NoErr

C10_Witness ==
    /\ pc = "decoded"
    /\ res.result.ok
    /\ state = "Status"
    /\ HeadId.pos = 1
    /\ Len(res.result.value.payload) = 1
    /\ res.pos = HeadId.pos + 2
    /\ res.pos < Len(src)

====
